---- MODULE Spec2Model ----
(***************************************************************************)
(* meteotrentino_exporter: the refresh pipeline (fetch, parse, per-series  *)
(* freshness validation, publish or evict, health) and its scheduler.      *)
(*                                                                         *)
(* Time is counted in minutes.  The clock moves in steps of StaleWindow,   *)
(* so a sample is either newer than, exactly at, or older than the         *)
(* staleness limit of a cycle.                                             *)
(***************************************************************************)
EXTENDS Integers, Sequences, FiniteSets, TLC

----------------------------------------------------------------------------
(* Bounds of the model *)

\* the clock takes the values 0, StaleWindow, ..., MaxClock * StaleWindow
MaxClock == 1
\* sample values are 1..MaxValue
MaxValue == 2
\* longest series in a served document
MaxLen == 2

----------------------------------------------------------------------------
(* Program constants *)

\* now.Add(-30 * time.Minute)
StaleWindow == 30
\* time.FixedZone("UTC+1", 1*60*60), in minutes
UTCOffset == 60
\* if res.StatusCode > 299
MaxOKStatus == 299

Kinds == {"temp", "rain", "hum"}
\* the two goroutines that call refresh(): `go refresh()` and the ticker loop
Procs == {"startup", "loop"}

\* a nil error
Nil == "nil"
\* a GaugeVec without a child for the labels
Absent == [present |-> FALSE, value |-> 0]
\* a GaugeVec whose child for the labels holds v
Present(v) == [present |-> TRUE, value |-> v]

Values == 1..MaxValue
\* the instants of the samples: a reading may be older than the start of the run
SampleTimes == {k * StaleWindow : k \in -1..MaxClock}
\* the civil (station local) time stamps of a document
CivilTimes == {t + UTCOffset : t \in SampleTimes}

\* an element of a section of the XML document: <data>, value
Element == [Data : CivilTimes, Value : Values]

SeqsUpTo(S, n) == UNION {[1..k -> S] : k \in 0..n}

\* documents whose three sections carry the same (at most one) reading
UniformDocuments == {[k \in Kinds |-> s] : s \in SeqsUpTo(Element, 1)}
\* the uniform documents whose reading has the value 1
PlainDocuments == {d \in UniformDocuments : \A k \in Kinds : \A i \in 1..Len(d[k]) : d[k][i].Value = 1}
\* a section as the endpoint delivers it: oldest reading first
Ascending(s) == \A i \in 1..(Len(s) - 1) : s[i].Data < s[i + 1].Data
\* documents with one populated section of up to n elements
OneSection(n) ==
    {[k \in Kinds |-> IF k = j THEN s ELSE <<>>] :
        j \in Kinds, s \in {t \in SeqsUpTo(Element, n) : Ascending(t)}}
\* the documents of the sequential runs
CycleDocuments == OneSection(MaxLen) \cup UniformDocuments

\* a DatiOggi without samples; also stands for the nil *DatiOggi, which is never read
NoItem == [k \in Kinds |-> <<>>]

Statuses == {200, MaxOKStatus, MaxOKStatus + 1, 500}
\* what http.Get and io.ReadAll can yield for a set D of served documents:
\* no response at all, a response whose body is not the expected XML,
\* or a response that carries a document of D
Responses(D) ==
    [transportOk : {FALSE}, status : {0}, readOk : {FALSE},
     wellFormed : {FALSE}, body : {NoItem}]
    \cup
    [transportOk : {TRUE}, status : Statuses, readOk : BOOLEAN,
     wellFormed : {FALSE}, body : {NoItem}]
    \cup
    [transportOk : {TRUE}, status : Statuses, readOk : BOOLEAN,
     wellFormed : {TRUE}, body : D]

----------------------------------------------------------------------------
VARIABLES
    toggle,     \* toggleTemp, toggleRain, toggleHum
    mainPc,     \* position of main()
    tickC,      \* number of ticks waiting in tick.C (capacity 1)
    clock,      \* time.Now()
    pc,         \* position of each goroutine that runs refresh()
    now,        \* refresh: now
    item,       \* refresh: o, the parsed DatiOggi
    updated,    \* refresh: updated
    logged,     \* what the running cycle has written to the log
    gauge,      \* tempMetric, rainMetric, humidityMetric under the labels
    up          \* stationsUpMetric

vars == <<toggle, mainPc, tickC, clock, pc, now, item, updated, logged, gauge, up>>

----------------------------------------------------------------------------
(* Pure functions *)

\* the civil time at which daylight saving begins in the zone Europe/Rome:
\* the run of the clock spans the changeover
SummerFrom == MaxClock * StaleWindow + UTCOffset
\* daylight saving is in force at this civil time
Summer(civil) == civil >= SummerFrom

\* LocalTime.UnmarshalText with time.LoadLocation("Europe/Rome"): UTC+2 in summer
UnmarshalTextRome(civil) == civil - (IF Summer(civil) THEN 2 * UTCOffset ELSE UTCOffset)

\* LocalTime.UnmarshalText: civil time in the fixed zone UTC+1 -> instant
UnmarshalText(civil) == civil - UTCOffset

\* xml.Unmarshal of a well-formed document into DatiOggi
Unmarshal(body) ==
    [k \in Kinds |->
        [i \in 1..Len(body[k]) |->
            [Data |-> UnmarshalText(body[k][i].Data), Value |-> body[k][i].Value]]]

\* getRealTimeData without the check of res.StatusCode
getRealTimeDataAnyStatus(resp) ==
    IF ~resp.transportOk
    THEN [item |-> NoItem, err |-> "transport"]
    ELSE IF ~resp.readOk
         THEN [item |-> NoItem, err |-> "read"]
         ELSE IF ~resp.wellFormed
              THEN [item |-> NoItem, err |-> "xml"]
              ELSE [item |-> Unmarshal(resp.body), err |-> Nil]

\* getRealTimeData: (item, err)
getRealTimeData(resp) ==
    IF ~resp.transportOk
    THEN [item |-> NoItem, err |-> "transport"]
    ELSE LET readErr == IF resp.readOk THEN Nil ELSE "read"
             err     == IF resp.status > MaxOKStatus THEN "status" ELSE readErr
         IN  IF err # Nil
             THEN [item |-> NoItem, err |-> err]
             ELSE IF ~resp.wellFormed
                  THEN [item |-> NoItem, err |-> "xml"]
                  ELSE [item |-> Unmarshal(resp.body), err |-> Nil]

NotBefore(t, u) == t >= u

\* time.Time.After
After(t, u) == t > u

\* s[i] of a Go slice (1-based here); an index out of range panics
Index(s, i) == IF i \in 1..Len(s) THEN s[i] ELSE [Data |-> 0, Value |-> 0, panic |-> TRUE]

\* refreshTemp / refreshRain / refreshHum without the length check
refreshSeriesUnchecked(enabled, s, limit) ==
    IF ~enabled
    THEN [value |-> 0, err |-> "disabled"]
    ELSE LET last == Index(s, Len(s))
         IN  IF "panic" \in DOMAIN last
             THEN [value |-> 0, err |-> "panic"]
             ELSE IF ~After(last.Data, limit)
                  THEN [value |-> 0, err |-> "stale"]
                  ELSE [value |-> last.Value, err |-> Nil]

\* the common body of refreshTemp, refreshRain and refreshHum: (value, err)
refreshSeries(enabled, s, limit) ==
    IF ~enabled
    THEN [value |-> 0, err |-> "disabled"]
    ELSE IF Len(s) < 1
         THEN [value |-> 0, err |-> "empty"]
         ELSE LET last == Index(s, Len(s))
              IN  IF "panic" \in DOMAIN last
                  THEN [value |-> 0, err |-> "panic"]
                  ELSE IF ~After(last.Data, limit)
                       THEN [value |-> 0, err |-> "stale"]
                       ELSE [value |-> last.Value, err |-> Nil]

\* tg stands for the flags toggleTemp, toggleRain, toggleHum
refreshRainWrongToggle(tg, s, lat) == refreshSeries(tg["temp"], s, lat)

refreshTemp(tg, s, lat) == refreshSeries(tg["temp"], s, lat)
refreshRain(tg, s, lat) == refreshSeries(tg["rain"], s, lat)
refreshHum(tg, s, lat) == refreshSeries(tg["hum"], s, lat)

\* lastAcceptableTimestamp := now.Add(-30 * time.Minute)
lastAcceptableTimestamp(nowRef) == nowRef - StaleWindow

\* a kind's evaluation in refresh(): the kind's section of o goes to the kind's function
Evaluate(tg, o, k, nowRef) ==
    CASE k = "temp" -> refreshTemp(tg, o["temp"], lastAcceptableTimestamp(nowRef))
      [] k = "rain" -> refreshRain(tg, o["rain"], lastAcceptableTimestamp(nowRef))
      [] k = "hum"  -> refreshHum(tg, o["hum"], lastAcceptableTimestamp(nowRef))

logMetricErrorAlways(err) == TRUE

\* logMetricError: errors.Is(err, errMetricDisabled) suppresses the line
logMetricError(err) == err # "disabled"

----------------------------------------------------------------------------
(* Positions of refresh() *)

\* after the kind's step on the success path
NextPc(k) ==
    CASE k = "temp" -> "rain"
      [] k = "rain" -> "hum"
      [] k = "hum"  -> "up"

ErrPc(k) ==
    CASE k = "temp" -> "e_temp"
      [] k = "rain" -> "e_rain"
      [] k = "hum"  -> "e_hum"

NextErrPc(k) ==
    CASE k = "temp" -> "e_rain"
      [] k = "rain" -> "e_hum"
      [] k = "hum"  -> "e_up"

\* where a goroutine is once refresh() has returned
Returned(p) == IF p = "startup" THEN "done" ELSE "idle"

InCycle(p) == pc[p] \notin {"unborn", "ready", "idle", "done"}

\* the process runs: main() has not returned and nothing has panicked
Running == mainPc \in {"ticker", "listen", "serving"}

----------------------------------------------------------------------------
Init ==
    /\ toggle \in [Kinds -> BOOLEAN]
    /\ mainPc = "start"
    /\ tickC = 0
    /\ clock = 0
    /\ pc = [p \in Procs |-> "unborn"]
    /\ now = [p \in Procs |-> 0]
    /\ item = [p \in Procs |-> NoItem]
    /\ updated = [p \in Procs |-> 0]
    /\ logged = [p \in Procs |-> {}]
    /\ gauge = [k \in Kinds |-> Absent]
    /\ up = 0

----------------------------------------------------------------------------
(* main() *)

\* main() without the exit on all metrics disabled
MainStartUnchecked ==
    /\ mainPc = "start"
    /\ mainPc' = "ticker"
    /\ pc' = [pc EXCEPT !["startup"] = "ready"]
    /\ UNCHANGED <<toggle, tickC, clock, now, item, updated, logged, gauge, up>>

\* flag.Parse, the all-disabled exit, `go refresh()`
MainStart ==
    /\ mainPc = "start"
    /\ IF ~(toggle["temp"] \/ toggle["rain"] \/ toggle["hum"])
       THEN /\ mainPc' = "exit"
            /\ pc' = pc
       ELSE /\ mainPc' = "ticker"
            /\ pc' = [pc EXCEPT !["startup"] = "ready"]
    /\ UNCHANGED <<toggle, tickC, clock, now, item, updated, logged, gauge, up>>

\* the ticker is armed only once the start-up cycle has returned
MainTickerAfterStartup ==
    /\ mainPc = "ticker"
    /\ pc["startup"] = "done"
    /\ mainPc' = "listen"
    /\ pc' = [pc EXCEPT !["loop"] = "idle"]
    /\ UNCHANGED <<toggle, tickC, clock, now, item, updated, logged, gauge, up>>

\* time.NewTicker and the goroutine that loops over tick.C
MainTicker ==
    /\ mainPc = "ticker"
    /\ mainPc' = "listen"
    /\ pc' = [pc EXCEPT !["loop"] = "idle"]
    /\ UNCHANGED <<toggle, tickC, clock, now, item, updated, logged, gauge, up>>

\* http.ListenAndServe: serves, or fails to bind and log.Fatal ends the process
MainListen ==
    /\ mainPc = "listen"
    /\ \E bound \in BOOLEAN : mainPc' = IF bound THEN "serving" ELSE "exit"
    /\ UNCHANGED <<toggle, tickC, clock, pc, now, item, updated, logged, gauge, up>>

\* the ticker's timer fires; a tick is dropped when tick.C is full
Tick ==
    /\ mainPc \in {"listen", "serving"}
    /\ tickC = 0
    /\ tickC' = 1
    /\ UNCHANGED <<toggle, mainPc, clock, pc, now, item, updated, logged, gauge, up>>

\* time passes
Advance ==
    /\ mainPc # "exit"
    /\ clock < MaxClock * StaleWindow
    /\ clock' = clock + StaleWindow
    /\ UNCHANGED <<toggle, mainPc, tickC, pc, now, item, updated, logged, gauge, up>>

----------------------------------------------------------------------------
(* refresh() *)

\* the head of refresh(): updated = 0, now := time.Now(), then http.Get is issued
Enter(p) ==
    /\ now' = [now EXCEPT ![p] = clock]
    /\ updated' = [updated EXCEPT ![p] = 0]
    /\ logged' = [logged EXCEPT ![p] = {}]
    /\ item' = [item EXCEPT ![p] = NoItem]
    /\ pc' = [pc EXCEPT ![p] = "fetch"]

\* refresh() returns: its locals are gone
Return(p) ==
    /\ now' = [now EXCEPT ![p] = 0]
    /\ updated' = [updated EXCEPT ![p] = 0]
    /\ logged' = [logged EXCEPT ![p] = {}]
    /\ item' = [item EXCEPT ![p] = NoItem]
    /\ pc' = [pc EXCEPT ![p] = Returned(p)]

\* the goroutine started by `go refresh()`
StartupBegin ==
    /\ Running
    /\ pc["startup"] = "ready"
    /\ Enter("startup")
    /\ UNCHANGED <<toggle, mainPc, tickC, clock, gauge, up>>

\* an overlap guard: no tick is taken while the start-up cycle runs
LoopReadyAfterStartup == pc["loop"] = "idle" /\ ~InCycle("startup")

\* a tick is taken also while the loop's cycle runs
LoopReadyAlways == pc["loop"] # "unborn"

\* the ticker loop may take a tick: it is not inside refresh()
LoopReady == pc["loop"] = "idle"

\* case <-tick.C: refresh()
LoopRecv ==
    /\ Running
    /\ LoopReady
    /\ tickC = 1
    /\ tickC' = 0
    /\ Enter("loop")
    /\ UNCHANGED <<toggle, mainPc, clock, gauge, up>>

\* a failed fetch that ends the process (panic(err) / log.Fatal)
FetchFailedFatal(p) ==
    /\ mainPc' = "exit"
    /\ UNCHANGED <<logged, item, pc>>

\* if err != nil { log.Println(err); ... }: the cycle takes the error path
FetchFailed(p) ==
    /\ logged' = [logged EXCEPT ![p] = @ \cup {"fetch"}]
    /\ item' = item
    /\ pc' = [pc EXCEPT ![p] = "e_temp"]
    /\ mainPc' = mainPc

\* o, err := getRealTimeData() returns
FetchReturn(p, D) ==
    /\ Running
    /\ pc[p] = "fetch"
    /\ \E resp \in Responses(D) :
        LET r == getRealTimeData(resp)
        IN  IF r.err # Nil
            THEN FetchFailed(p)
            ELSE /\ logged' = logged
                 /\ item' = [item EXCEPT ![p] = r.item]
                 /\ pc' = [pc EXCEPT ![p] = "temp"]
                 /\ mainPc' = mainPc
    /\ UNCHANGED <<toggle, tickC, clock, now, updated, gauge, up>>

\* error path: <kind>Metric.DeletePartialMatch(labels)
ErrDelete(p, k) ==
    /\ Running
    /\ pc[p] = ErrPc(k)
    /\ gauge' = [gauge EXCEPT ![k] = Absent]
    /\ pc' = [pc EXCEPT ![p] = NextErrPc(k)]
    /\ UNCHANGED <<toggle, mainPc, tickC, clock, now, item, updated, logged, up>>

\* error path: stationsUpMetric.Set(0); return
ErrUp(p) ==
    /\ Running
    /\ pc[p] = "e_up"
    /\ up' = 0
    /\ Return(p)
    /\ UNCHANGED <<toggle, mainPc, tickC, clock, gauge>>

\* what refresh does with the result (value, err) of a kind's evaluation
Publish(p, k, r) ==
    IF r.err = "panic"
    THEN \* index out of range: the panic ends the process
         /\ mainPc' = "exit"
         /\ UNCHANGED <<pc, gauge, updated, logged>>
    ELSE /\ mainPc' = mainPc
         /\ pc' = [pc EXCEPT ![p] = NextPc(k)]
         /\ IF r.err # Nil
            THEN /\ logged' = [logged EXCEPT ![p] =
                                  IF logMetricError(r.err) THEN @ \cup {k} ELSE @]
                 /\ gauge' = [gauge EXCEPT ![k] = Absent]
                 /\ updated' = updated
            ELSE /\ logged' = logged
                 /\ gauge' = [gauge EXCEPT ![k] = Present(r.value)]
                 /\ updated' = [updated EXCEPT ![p] = 1]

\* one kind's block of refresh(): evaluate the series, then set or delete
RefreshKind(p, k) ==
    /\ Running
    /\ pc[p] = k
    /\ Publish(p, k, Evaluate(toggle, item[p], k, now[p]))
    /\ UNCHANGED <<toggle, tickC, clock, now, item, up>>

\* the health gauge is only ever raised by a cycle that published something
SetUpSticky(p) ==
    /\ Running
    /\ pc[p] = "up"
    /\ up' = IF updated[p] = 1 THEN 1 ELSE up
    /\ Return(p)
    /\ UNCHANGED <<toggle, mainPc, tickC, clock, gauge>>

\* stationsUpMetric.Set(updated); refresh returns
SetUp(p) ==
    /\ Running
    /\ pc[p] = "up"
    /\ up' = updated[p]
    /\ Return(p)
    /\ UNCHANGED <<toggle, mainPc, tickC, clock, gauge>>

----------------------------------------------------------------------------
\* the program, fed documents from D, while the clock stands
NextOn(D) ==
    \/ MainStart
    \/ MainTicker
    \/ MainListen
    \/ Tick
    \/ StartupBegin
    \/ LoopRecv
    \/ \E p \in Procs : FetchReturn(p, D)
    \/ \E p \in Procs, k \in Kinds : ErrDelete(p, k)
    \/ \E p \in Procs : ErrUp(p)
    \/ \E p \in Procs, k \in Kinds : RefreshKind(p, k)
    \/ \E p \in Procs : SetUp(p)

Next == NextOn(UniformDocuments) \/ Advance

Spec == Init /\ [][Next]_vars

\* the runs in which a cycle ends before the next one starts
SerialNext ==
    \/ MainStart
    \/ MainTicker
    \/ MainListen
    \/ Tick
    \/ Advance
    \/ StartupBegin /\ ~InCycle("loop")
    \/ LoopRecv /\ ~InCycle("startup") /\ pc["startup"] # "ready"
    \/ \E p \in Procs : FetchReturn(p, CycleDocuments)
    \/ \E p \in Procs, k \in Kinds : ErrDelete(p, k)
    \/ \E p \in Procs : ErrUp(p)
    \/ \E p \in Procs, k \in Kinds : RefreshKind(p, k)
    \/ \E p \in Procs : SetUp(p)

SerialSpec == Init /\ [][SerialNext]_vars

\* the scheduler at one instant of the clock: the documents served there
\* hold fresh readings, readings at the staleness limit, or none
SchedNext == NextOn(PlainDocuments)

\* the steps of goroutine p inside refresh()
CycleStep(p, D) ==
    \/ FetchReturn(p, D)
    \/ \E k \in Kinds : ErrDelete(p, k)
    \/ ErrUp(p)
    \/ \E k \in Kinds : RefreshKind(p, k)
    \/ SetUp(p)

\* main() and the goroutines are scheduled, the ticker keeps firing and
\* every request is answered in the end
Fairness ==
    /\ WF_vars(MainStart)
    /\ WF_vars(MainTicker)
    /\ WF_vars(MainListen)
    /\ WF_vars(Tick)
    /\ WF_vars(StartupBegin)
    /\ WF_vars(LoopRecv)
    /\ \A p \in Procs : WF_vars(CycleStep(p, PlainDocuments))

FairSpec == Init /\ [][SchedNext]_vars /\ Fairness

----------------------------------------------------------------------------
(* Vocabulary of the properties *)

\* goroutine p takes a step from position at
Leaves(p, at) == pc[p] = at /\ pc'[p] # at

LastOf(s) == s[Len(s)]

\* the kind is enabled and the last sample of its series is newer than the limit
Fresh(p, k) ==
    /\ toggle[k]
    /\ Len(item[p][k]) >= 1
    /\ LastOf(item[p][k]).Data > now[p] - StaleWindow

AllAbsent == \A k \in Kinds : gauge[k] = Absent

\* the parsed forms of the uniform documents
UniformItems == {Unmarshal(d) : d \in UniformDocuments}

----------------------------------------------------------------------------
(* C1 *)

\* C1: a cycle whose fetch or parse failed sets no gauge, and when it
\* completes the three gauges are absent and stations_up is 0, whatever was
\* published before.
C1_FailedCycleEvictsAll ==
    [][\A p \in Procs :
          /\ (pc[p] \in {"e_temp", "e_rain", "e_hum", "e_up"} /\ pc'[p] # pc[p])
                => \A k \in Kinds : gauge'[k] \in {gauge[k], Absent}
          /\ Leaves(p, "e_up")
                => (\A k \in Kinds : gauge'[k] = Absent) /\ up' = 0]_vars

----------------------------------------------------------------------------
(* C2 *)

\* C2: the step of a cycle for a kind sets the kind's gauge to the value of
\* the last sample exactly when the kind is enabled, the series is not empty
\* and the last time stamp is strictly after now - 30 minutes; in every other
\* case, a last time stamp equal to now - 30 minutes included, it deletes
\* the gauge.
C2_SetIffLastSampleFresh ==
    [][\A p \in Procs, k \in Kinds :
          Leaves(p, k)
            => IF Fresh(p, k)
               THEN gauge'[k] = Present(LastOf(item[p][k]).Value)
               ELSE gauge'[k] = Absent]_vars

\* a fresh last sample was published over an older first sample of another value
C2_Witness ==
    \E p \in Procs :
        /\ pc[p] = "rain"
        /\ Len(item[p]["temp"]) = 2
        /\ Fresh(p, "temp")
        /\ item[p]["temp"][1].Value # item[p]["temp"][2].Value
        /\ gauge["temp"] = Present(item[p]["temp"][2].Value)

----------------------------------------------------------------------------
(* C3 *)

\* C3: the write that completes a cycle sets stations_up to 1 exactly when
\* one of the three kinds was accepted in this cycle, and to 0 when all were
\* rejected or the cycle failed at fetch or parse.
C3_HealthIffAcceptedThisCycle ==
    [][\A p \in Procs :
          /\ Leaves(p, "up")
                => up' = IF \E k \in Kinds : Fresh(p, k) THEN 1 ELSE 0
          /\ Leaves(p, "e_up") => up' = 0]_vars

\* a cycle that accepted nothing is about to complete while stations_up is
\* still 1 from an earlier cycle, whose gauge has been deleted
C3_Witness ==
    \E p \in Procs :
        /\ pc[p] = "up"
        /\ updated[p] = 0
        /\ up = 1
        /\ AllAbsent
        /\ \E k \in Kinds : toggle[k]

----------------------------------------------------------------------------
(* C4 *)

\* C4: for a series without samples the evaluation returns a rejection
\* without indexing the series (no panic), the gauge is deleted and the cycle
\* goes on with the next kind, up to the health gauge.
C4_EmptySeriesRejected ==
    [][\A p \in Procs, k \in Kinds :
          (pc[p] = k /\ Len(item[p][k]) = 0)
            => /\ Evaluate(toggle, item[p], k, now[p]).err
                     = IF toggle[k] THEN "empty" ELSE "disabled"
               /\ Leaves(p, k)
                     => /\ gauge'[k] = Absent
                        /\ pc'[p] = NextPc(k)
                        /\ mainPc' = mainPc]_vars

\* an enabled kind without samples was rejected and a later kind published
C4_Witness ==
    \E p \in Procs :
        /\ pc[p] = "up"
        /\ toggle["temp"] /\ toggle["rain"]
        /\ item[p]["temp"] = <<>>
        /\ gauge["temp"] = Absent
        /\ Fresh(p, "rain")
        /\ gauge["rain"] = Present(LastOf(item[p]["rain"]).Value)
        /\ updated[p] = 1

----------------------------------------------------------------------------
(* C5 *)

\* C5: a disabled kind is rejected as disabled whatever its series holds,
\* its gauge is deleted and nothing is logged for it; an enabled kind that is
\* rejected (empty or stale) is logged.
C5_DisabledSilent ==
    [][\A p \in Procs, k \in Kinds :
          Leaves(p, k)
            => /\ ~toggle[k]
                     => /\ Evaluate(toggle, item[p], k, now[p]).err = "disabled"
                        /\ gauge'[k] = Absent
                        /\ k \notin logged'[p]
               /\ (toggle[k] /\ ~Fresh(p, k)) => k \in logged'[p]]_vars

\* a disabled kind with a fresh sample was evicted silently while an enabled
\* empty kind was logged
C5_Witness ==
    \E p \in Procs :
        /\ pc[p] = "up"
        /\ ~toggle["temp"] /\ toggle["rain"]
        /\ Len(item[p]["temp"]) >= 1
        /\ LastOf(item[p]["temp"]).Data > now[p] - StaleWindow
        /\ gauge["temp"] = Absent
        /\ "temp" \notin logged[p]
        /\ item[p]["rain"] = <<>>
        /\ "rain" \in logged[p]

----------------------------------------------------------------------------
(* C6 *)

\* C6: the outcome of a kind's step depends on the kind's own series, its
\* own toggle and now only: replacing the other kinds' series and toggles
\* leaves the evaluation unchanged, the step writes only the kind's gauge,
\* and after it the cycle goes on with the next kind whatever the outcome.
C6_KindsIndependent ==
    [][\A p \in Procs, k \in Kinds :
          Leaves(p, k)
            => LET r == Evaluate(toggle, item[p], k, now[p])
               IN  /\ \A alt \in UniformItems, b \in BOOLEAN :
                        Evaluate([j \in Kinds |-> IF j = k THEN toggle[k] ELSE b],
                                 [j \in Kinds |-> IF j = k THEN item[p][k] ELSE alt[j]],
                                 k, now[p]) = r
                   /\ gauge'[k] = IF r.err = Nil THEN Present(r.value) ELSE Absent
                   /\ \A j \in Kinds \ {k} : gauge'[j] = gauge[j]
                   /\ pc'[p] = NextPc(k)]_vars

\* temperature and rain were rejected and humidity was still published
C6_Witness ==
    \E p \in Procs :
        /\ pc[p] = "up"
        /\ \A k \in Kinds : toggle[k]
        /\ gauge["temp"] = Absent
        /\ gauge["rain"] = Absent
        /\ Fresh(p, "hum")
        /\ gauge["hum"] = Present(LastOf(item[p]["hum"]).Value)

----------------------------------------------------------------------------
(* C7 *)

\* the ticker exists and its loop goroutine has been started
TimerArmed == pc["loop"] # "unborn"

\* C7: once the exposition server is up, whatever the outcome of a cycle,
\* the ticker loop finishes the cycle and a later tick starts another one.
C7_KeepsTicking ==
    /\ (mainPc = "serving") ~> (pc["loop"] = "fetch")
    /\ (mainPc = "serving" /\ InCycle("loop")) ~> (pc["loop"] = "idle")

\* every kind is enabled, the cycles completed so far have left nothing
\* published (fetch or parse error, empty or stale series), and the ticker
\* loop has started a further cycle
C7_Witness ==
    /\ mainPc = "serving"
    /\ \A k \in Kinds : toggle[k]
    /\ pc["startup"] = "done"
    /\ AllAbsent
    /\ up = 0
    /\ pc["loop"] = "fetch"

----------------------------------------------------------------------------
(* C8 *)

\* C8 as stated: the timer is armed when the start-up cycle has completed,
\* and the scheduler is either idle or running one cycle.
C8_TimerArmedAfterFirstCycle ==
    /\ TimerArmed => pc["startup"] = "done"
    /\ ~(InCycle("startup") /\ InCycle("loop"))

\* C8 as amended: the start-up cycle is launched before the timer exists,
\* hence before any tick; the timer is armed right after the launch without
\* waiting for that cycle; a tick is taken only by the idle ticker loop,
\* which never ends.
C8_SchedulerStates ==
    /\ TimerArmed => pc["startup"] # "unborn"
    /\ tickC = 1 => TimerArmed
    /\ mainPc = "ticker" => ENABLED MainTicker
    /\ ENABLED LoopRecv => pc["loop"] = "idle"
    /\ pc["loop"] # "done"

\* the timer is armed and both the start-up cycle and a tick's cycle run
C8_Witness ==
    /\ TimerArmed
    /\ InCycle("startup")
    /\ InCycle("loop")

----------------------------------------------------------------------------
(* C9 *)

\* C9: a request that never returns blocks only its own cycle: with a tick
\* waiting and every cycle in progress waiting for its response, the tick's
\* cycle can start; the exposition server can start as well.
C9_HungFetchBlocksOnlyItsCycle ==
    /\ (/\ Running
        /\ TimerArmed
        /\ tickC = 1
        /\ \A p \in Procs : InCycle(p) => pc[p] = "fetch")
          => ENABLED LoopRecv
    /\ mainPc = "listen" => ENABLED MainListen

----------------------------------------------------------------------------
(* C10 *)

\* what the cycle of p publishes for kind k when it runs alone
AloneGauge(p, k) ==
    IF Fresh(p, k) THEN Present(LastOf(item[p][k]).Value) ELSE Absent

\* C10: when a cycle completes and the other one is not in progress, the
\* three gauges and stations_up are what the completing cycle alone would
\* have published.
C10_LastCompletingCycleWins ==
    [][\A p \in Procs :
          (\A q \in Procs \ {p} : ~InCycle(q))
            => /\ Leaves(p, "up")
                     => /\ \A k \in Kinds : gauge'[k] = AloneGauge(p, k)
                        /\ up' = IF \E k \in Kinds : Fresh(p, k) THEN 1 ELSE 0
               /\ Leaves(p, "e_up")
                     => /\ \A k \in Kinds : gauge'[k] = Absent
                        /\ up' = 0]_vars

----------------------------------------------------------------------------
(* C11 *)

\* C11: whenever a step of a cycle sets a gauge, the sample it publishes is
\* strictly newer than (the time of the set operation - 30 minutes), however
\* long the fetch of the cycle took.
C11_NoStaleSampleAtSetTime ==
    [][\A p \in Procs, k \in Kinds :
          (Leaves(p, k) /\ gauge'[k].present)
            => LastOf(item[p][k]).Data > clock - StaleWindow]_vars

----------------------------------------------------------------------------
(* C12 *)

\* the request got no response, the body could not be read, or the status
\* is above 299
FetchFails(resp) ==
    \/ ~resp.transportOk
    \/ ~resp.readOk
    \/ resp.status > MaxOKStatus

\* what the parser makes of a body
Parsed(resp) ==
    IF resp.wellFormed
    THEN [item |-> Unmarshal(resp.body), err |-> Nil]
    ELSE [item |-> NoItem, err |-> "xml"]

\* C12: a cycle issues its request once, at its head, and the response is
\* consumed once; the fetch stage reports an error exactly when the
\* transport failed, the body could not be read or the status is above 299;
\* with a status of at most 299 and a readable body the result is what the
\* parser makes of the body; with a status above 299 nothing is parsed, and
\* a cycle whose fetch failed takes the error path without a snapshot.
C12_FetchErrorIffTransportReadStatus ==
    /\ [](\A p \in Procs :
            pc[p] = "fetch"
              => \A resp \in Responses(UniformDocuments) :
                   LET r == getRealTimeData(resp)
                   IN  /\ r.err \in {"transport", "read", "status"}
                             <=> FetchFails(resp)
                       /\ ~FetchFails(resp) => r = Parsed(resp)
                       /\ (resp.transportOk /\ resp.status > MaxOKStatus)
                             => r = [item |-> NoItem, err |-> "status"])
    /\ [][\A p \in Procs :
            /\ (pc'[p] = "fetch" /\ pc[p] # "fetch") => pc[p] \in {"ready", "idle"}
            /\ Leaves(p, "fetch")
                  => /\ pc'[p] \in {"temp", "e_temp"}
                     /\ pc'[p] = "e_temp"
                           => item'[p] = NoItem /\ "fetch" \in logged'[p]]_vars

\* a cycle failed at its fetch after an earlier cycle had published a value
C12_Witness ==
    \E p \in Procs :
        /\ pc[p] = "e_temp"
        /\ "fetch" \in logged[p]
        /\ item[p] = NoItem
        /\ \E k \in Kinds : gauge[k].present

----------------------------------------------------------------------------
(* C13 *)

\* C13: the decoding of a time stamp subtracts the one offset UTC+1 from the
\* civil time, in winter and in summer: civil times that differ by d decode
\* to instants that differ by d, the parsed snapshot carries these instants,
\* and a sample is fresh exactly when its civil time less the constant
\* offset is after nowRef - 30 minutes, whatever the season.
C13_FixedOffsetAllYear ==
    \A p \in Procs :
        pc[p] = "fetch"
          => /\ \E c \in CivilTimes : Summer(c)
             /\ \E c \in CivilTimes : ~Summer(c)
             /\ \A c \in CivilTimes : UnmarshalText(c) = c - UTCOffset
             /\ \A c1, c2 \in CivilTimes :
                    UnmarshalText(c1) - UnmarshalText(c2) = c1 - c2
             /\ \A d \in UniformDocuments, k \in Kinds :
                    \A i \in 1..Len(d[k]) :
                        Unmarshal(d)[k][i].Data = d[k][i].Data - UTCOffset
             /\ \A c \in CivilTimes, n \in SampleTimes :
                    After(UnmarshalText(c), lastAcceptableTimestamp(n))
                        <=> c - UTCOffset > n - StaleWindow

\* a cycle that runs in summer time has accepted a sample stamped in summer time
C13_Witness ==
    \E p \in Procs :
        /\ pc[p] = "rain"
        /\ Summer(now[p] + UTCOffset)
        /\ Fresh(p, "temp")
        /\ Summer(LastOf(item[p]["temp"]).Data + UTCOffset)
        /\ gauge["temp"] = Present(LastOf(item[p]["temp"]).Value)

----------------------------------------------------------------------------
(* C14 *)

\* C14 as stated: whenever a tick has fired while some cycle, the start-up
\* cycle or an earlier tick's cycle, is still fetching or parsing, a second
\* cycle can be dispatched before the first completes.
C14_TickDispatchesDuringAnyCycle ==
    (/\ Running
     /\ tickC = 1
     /\ \E p \in Procs : pc[p] = "fetch")
       => ENABLED LoopRecv

\* C14 as amended: a tick that has fired while the start-up cycle is in
\* progress dispatches a second cycle before the first completes, while a
\* tick that has fired during a tick's cycle dispatches nothing until that
\* cycle has completed.
C14_OverlapOnlyWithStartup ==
    /\ (/\ Running
        /\ tickC = 1
        /\ InCycle("startup")
        /\ pc["loop"] = "idle")
          => ENABLED LoopRecv
    /\ InCycle("loop") => ~ENABLED LoopRecv

\* both cycles are in progress on different readings: the temperature gauge
\* holds the value of the tick's cycle and the rain gauge the value of the
\* start-up cycle
C14_Witness ==
    /\ pc["startup"] = "hum"
    /\ pc["loop"] = "rain"
    /\ Fresh("startup", "rain")
    /\ Fresh("loop", "temp")
    /\ LastOf(item["loop"]["temp"]).Value # LastOf(item["startup"]["rain"]).Value
    /\ gauge["temp"] = Present(LastOf(item["loop"]["temp"]).Value)
    /\ gauge["rain"] = Present(LastOf(item["startup"]["rain"]).Value)

----------------------------------------------------------------------------
(* C15 *)

\* the positions of a cycle that has passed fetch and parse
Publishing == {"temp", "rain", "hum", "up"}

\* C15: a cycle that has passed fetch and parse writes the temperature, the
\* rain and the humidity gauge, one write each and in this order, then
\* writes stations_up and returns; no step of the cycle before the last
\* writes stations_up, and while the cycle is in progress stations_up keeps
\* the value it had.
C15_HealthWrittenLast ==
    [][\A p \in Procs :
          /\ (pc'[p] # pc[p] /\ pc'[p] \in Publishing)
                => \/ pc[p] = "fetch" /\ pc'[p] = "temp"
                   \/ pc[p] \in Kinds /\ pc'[p] = NextPc(pc[p])
          /\ \A k \in Kinds :
                Leaves(p, k)
                  => /\ gauge'[k] \in {Absent} \cup {Present(v) : v \in Values}
                     /\ \A j \in Kinds \ {k} : gauge'[j] = gauge[j]
          /\ Leaves(p, "up") => pc'[p] = Returned(p) /\ gauge' = gauge
          /\ (pc[p] \in Publishing /\ pc'[p] \in Publishing) => up' = up]_vars

----------------------------------------------------------------------------
(* C16 *)

\* C16: when a cycle completes and leaves no cycle in progress, stations_up
\* is 1 exactly when one of the three gauges is present and 0 exactly when
\* all three are absent; since only the steps of a cycle write the gauges,
\* this is the state whenever no cycle is in progress and a cycle has
\* completed.
C16_HealthMatchesGauges ==
    [][\A p \in Procs :
          (/\ Leaves(p, "up") \/ Leaves(p, "e_up")
           /\ \A q \in Procs : pc'[q] \in {"unborn", "ready", "idle", "done"})
            => /\ up' = 1 <=> \E k \in Kinds : gauge'[k].present
               /\ up' = 0 <=> \A k \in Kinds : gauge'[k] = Absent]_vars

----------------------------------------------------------------------------
(* C17 *)

\* C17: cycles are started only by the start-up task, once, and by the
\* ticker loop when it is idle and a tick is waiting; while the loop's cycle
\* runs no tick starts a cycle: one tick at most waits until the cycle has
\* completed and further ticks are dropped; so the only cycles that can be
\* in progress together are the start-up cycle and one tick's cycle.
C17_TickCyclesSerial ==
    /\ [](/\ tickC \in {0, 1}
          /\ InCycle("loop") => ~ENABLED LoopRecv
          /\ (InCycle("loop") /\ tickC = 1) => ~ENABLED Tick
          /\ pc["startup"] \in {"fetch", "done"} \cup Publishing
                  \cup {"e_temp", "e_rain", "e_hum", "e_up"}
                => ~ENABLED StartupBegin)
    /\ [][/\ (pc'["startup"] = "fetch" /\ pc["startup"] # "fetch")
                => pc["startup"] = "ready"
          /\ pc["startup"] = "done" => pc'["startup"] = "done"
          /\ (pc'["loop"] = "fetch" /\ pc["loop"] # "fetch")
                => pc["loop"] = "idle" /\ tickC = 1 /\ tickC' = 0
          /\ (InCycle("loop") /\ pc'["loop"] # "idle" /\ tickC = 1)
                => tickC' = 1]_vars

\* the start-up cycle and a tick's cycle are in progress and a further tick waits
C17_Witness ==
    /\ InCycle("startup")
    /\ InCycle("loop")
    /\ tickC = 1

----------------------------------------------------------------------------
(* C18 *)

NoneEnabled == \A k \in Kinds : ~toggle[k]

\* C18: with the three toggles disabled main() returns at once: no cycle is
\* ever started (no fetch), the gauges and stations_up are never written,
\* the ticker is not created and the exposition server is not started; with
\* a toggle enabled main() does not take this exit.
C18_AllDisabledExits ==
    /\ [](NoneEnabled
            => /\ mainPc \in {"start", "exit"}
               /\ \A p \in Procs : pc[p] = "unborn"
               /\ tickC = 0
               /\ AllAbsent /\ up = 0
               /\ ~ENABLED StartupBegin
               /\ ~ENABLED Tick
               /\ ~ENABLED MainTicker
               /\ ~ENABLED MainListen
               /\ mainPc = "exit" => ~ENABLED Next)
    /\ [][mainPc = "start"
            => /\ NoneEnabled => mainPc' = "exit"
               /\ ~NoneEnabled
                     => mainPc' = "ticker" /\ pc'["startup"] = "ready"]_vars

\* the process has ended with nothing enabled and nothing started
C18_Witness ==
    /\ NoneEnabled
    /\ mainPc = "exit"
    /\ \A p \in Procs : pc[p] = "unborn"

====
